---- MODULE Spec2Model ----
(***************************************************************************)
(* A model of EnhancedCarbonTracker (src/carbon_tracker.py).               *)
(*                                                                         *)
(* Numbers.  Raw usage values are integers.  Emission factors are kept in  *)
(* tenths of a kg CO2 per unit (0.4 -> 4), so every emission value and     *)
(* total is an integer number of tenths of a kg.  Means and the goal       *)
(* progress are exact rationals [n, d] in lowest terms with d > 0.         *)
(*                                                                         *)
(* Dates.  A date string 'YYYY-MM-DD' is the tuple <<year, month, day>>;   *)
(* the argument date=None is the empty tuple.                              *)
(*                                                                         *)
(* Dictionaries keep insertion order in Python, and the order reaches the  *)
(* column order of the DataFrame, so a dictionary is a sequence of         *)
(* <<key, value>> pairs with distinct keys.                                *)
(***************************************************************************)
EXTENDS Integers, Sequences, FiniteSets, TLC

VARIABLES
    data,       \* self.data: the list of entries
    goals,      \* self.goals: the list of goals
    dataFile,   \* the file self.data_file
    goalsFile,  \* the file self.goals_file
    call,       \* the method called last and its arguments
    ret         \* what that call returned, or the exception it raised

vars == <<data, goals, dataFile, goalsFile, call, ret>>

----------------------------------------------------------------------------
(* Bounds of the model *)

MaxEntries == 2        \* entries in Spec
MaxGoals == 1          \* goals in Spec
EntryMaxEntries == 1   \* entries in SpecEntry
ReportMaxEntries == 3  \* entries in SpecReport
TrendMaxPrior == 6     \* entries in the data file when SpecTrend starts
TrendMaxAdds == 2      \* entries added in SpecTrend

----------------------------------------------------------------------------
(* Rational arithmetic, standing for Python's float arithmetic *)

Abs(x) == IF x < 0 THEN -x ELSE x

RECURSIVE GCD(_, _)
GCD(a, b) == IF b = 0 THEN a ELSE GCD(b, a % b)

Rat(n, d) ==
    LET s == IF d < 0 THEN -1 ELSE 1
        g == GCD(Abs(n), Abs(d))
    IN  [n |-> (s * n) \div g, d |-> (s * d) \div g]

RInt(k) == [n |-> k, d |-> 1]
RSub(a, b) == Rat(a.n * b.d - b.n * a.d, a.d * b.d)
RMul(a, b) == Rat(a.n * b.n, a.d * b.d)
RDiv(a, b) == Rat(a.n * b.d, a.d * b.n)
RLt(a, b) == a.n * b.d < b.n * a.d
RLe(a, b) == a.n * b.d <= b.n * a.d
RMax(a, b) == IF RLt(a, b) THEN b ELSE a
RMin(a, b) == IF RLt(b, a) THEN b ELSE a

----------------------------------------------------------------------------
(* Dictionaries as sequences of <<key, value>> pairs *)

Keys(dict) == {dict[i][1] : i \in 1..Len(dict)}
HasKey(dict, k) == \E i \in 1..Len(dict) : dict[i][1] = k
Lookup(dict, k) == dict[CHOOSE i \in 1..Len(dict) : dict[i][1] = k][2]

\* sum(dict.values())
SumValuesSkipLast(dict) ==
    LET F[i \in 0..Len(dict)] == IF i = 0 THEN 0 ELSE F[i - 1] + dict[i][2]
    IN  IF dict = <<>> THEN 0 ELSE F[Len(dict) - 1]

SumValues(dict) ==
    LET F[i \in 0..Len(dict)] == IF i = 0 THEN 0 ELSE F[i - 1] + dict[i][2]
    IN  F[Len(dict)]

----------------------------------------------------------------------------
(* The factor table *)

EmissionCategories ==
    <<"electricity", "transportation", "heating", "waste", "water", "food",
      "electronics">>

emission_factors ==
    [electricity |-> 4, transportation |-> 2, heating |-> 2, waste |-> 5,
     water |-> 3, food |-> 12, electronics |-> 8]

----------------------------------------------------------------------------
(* Files *)

NoFile == [exists |-> FALSE, content |-> <<>>]

\* _load_data: the content, or [] when the file does not exist
LoadData(file) == IF file.exists THEN file.content ELSE <<>>

\* _save_data: the file is rewritten with the whole list
SaveDataTruncated(list) == [exists |-> TRUE, content |-> <<>>]

SaveData(list) == [exists |-> TRUE, content |-> list]

----------------------------------------------------------------------------
(* add_entry *)

None == <<>>

\* the loop that fills emissions from kwargs
ComputeEmissionsZeroUnknown(kwargs) ==
    [i \in 1..Len(kwargs) |->
        <<kwargs[i][1],
          IF kwargs[i][1] \in DOMAIN emission_factors
          THEN kwargs[i][2] * emission_factors[kwargs[i][1]] ELSE 0>>]

ComputeEmissions(kwargs) ==
    LET known == SelectSeq(kwargs,
                     LAMBDA kv : kv[1] \in DOMAIN emission_factors)
    IN  [i \in 1..Len(known) |->
            <<known[i][1], known[i][2] * emission_factors[known[i][1]]>>]

BuildEntry(date, kwargs) ==
    LET emissions == ComputeEmissions(kwargs)
    IN  [date |-> date,
         inputs |-> kwargs,
         emissions |-> emissions,
         total_emissions |-> SumValues(emissions)]

\* self.data.append(entry)
AppendEntryMergeDate(list, entry) ==
    IF \E i \in 1..Len(list) : list[i].date = entry.date
    THEN [i \in 1..Len(list) |->
             IF list[i].date = entry.date THEN entry ELSE list[i]]
    ELSE Append(list, entry)

AppendEntry(list, entry) == Append(list, entry)

AddEntry(date, now, kwargs) ==
    LET entry == BuildEntry(IF date = None THEN now ELSE date, kwargs)
    IN  /\ data' = AppendEntry(data, entry)
        /\ dataFile' = SaveData(data')
        /\ call' = [op |-> "add_entry", args |-> <<date, kwargs>>]
        /\ ret' = [kind |-> "entry", val |-> entry]
        /\ UNCHANGED <<goals, goalsFile>>

----------------------------------------------------------------------------
(* _get_dataframe: a DataFrame is its column labels, in order, and its     *)
(* rows; a row holds the cells that are not NaN.                           *)

DateCol == <<"date">>
TotalCol == <<"total_emissions">>
InputCol(category) == <<"input", category>>
EmissionsCol(category) == <<"emissions", category>>

EntryRecord(entry) ==
    <<  <<DateCol, entry.date>>, <<TotalCol, entry.total_emissions>> >>
    \o [i \in 1..Len(entry.inputs) |->
           <<InputCol(entry.inputs[i][1]), entry.inputs[i][2]>>]
    \o [i \in 1..Len(entry.emissions) |->
           <<EmissionsCol(entry.emissions[i][1]), entry.emissions[i][2]>>]

\* the labels of the records in order of first appearance
RECURSIVE AddLabels(_, _)
AddLabels(cols, labels) ==
    IF labels = <<>> THEN cols
    ELSE AddLabels(IF \E i \in 1..Len(cols) : cols[i] = Head(labels)
                   THEN cols ELSE Append(cols, Head(labels)),
                   Tail(labels))

RECURSIVE ColumnsOf(_, _)
ColumnsOf(cols, records) ==
    IF records = <<>> THEN cols
    ELSE ColumnsOf(AddLabels(cols,
                       [i \in 1..Len(Head(records)) |-> Head(records)[i][1]]),
                   Tail(records))

GetDataframe(list) ==
    IF list = <<>> THEN [columns |-> <<>>, records |-> <<>>]
    ELSE LET records == [i \in 1..Len(list) |-> EntryRecord(list[i])]
         IN  [columns |-> ColumnsOf(<<>>, records), records |-> records]

HasColumn(df, col) == \E i \in 1..Len(df.columns) : df.columns[i] = col

\* df.empty
IsEmpty(df) == df.columns = <<>> \/ df.records = <<>>

\* Series.sum() and Series.mean() of one column over some rows: NaN
\* cells are skipped
ColumnValues(records, col) ==
    LET present == SelectSeq(records, LAMBDA r : HasKey(r, col))
    IN  [i \in 1..Len(present) |-> Lookup(present[i], col)]

SeqSum(s) ==
    LET F[i \in 0..Len(s)] == IF i = 0 THEN 0 ELSE F[i - 1] + s[i]
    IN  F[Len(s)]

ColumnSum(records, col) == SeqSum(ColumnValues(records, col))

\* NaN: neither below nor above any number
NaN == [n |-> 0, d |-> 0]

ColumnMeanAllRows(records, col) ==
    IF records = <<>> THEN NaN
    ELSE Rat(SeqSum(ColumnValues(records, col)), Len(records))

ColumnMean(records, col) ==
    LET values == ColumnValues(records, col)
    IN  IF values = <<>> THEN NaN ELSE Rat(SeqSum(values), Len(values))

\* Series.idxmax() of a series of numbers: the position of the first maximum
IdxMaxLast(s) ==
    CHOOSE i \in 1..Len(s) :
        /\ \A j \in 1..Len(s) : RLe(s[j], s[i])
        /\ \A j \in (i + 1)..Len(s) : RLt(s[j], s[i])

IdxMax(s) ==
    CHOOSE i \in 1..Len(s) :
        /\ \A j \in 1..Len(s) : RLe(s[j], s[i])
        /\ \A j \in 1..(i - 1) : RLt(s[j], s[i])

Raise(exception) == [kind |-> "raise", val |-> exception]

----------------------------------------------------------------------------
(* get_average_emissions *)

AverageEmissions(list, category) ==
    LET df == GetDataframe(list)
    IN  IF HasColumn(df, EmissionsCol(category))
        THEN ColumnMean(df.records, EmissionsCol(category))
        ELSE RInt(0)

GetAverageEmissions(category) ==
    /\ call' = [op |-> "get_average_emissions", args |-> <<category>>]
    /\ ret' = [kind |-> "value", val |-> AverageEmissions(data, category)]
    /\ UNCHANGED <<data, goals, dataFile, goalsFile>>

----------------------------------------------------------------------------
(* set_goal and track_goals *)

SetGoal(category, target_value, target_date, now) ==
    LET goal == [category |-> category,
                 target_value |-> target_value,
                 target_date |-> target_date,
                 start_date |-> now,
                 start_value |-> AverageEmissions(data, category)]
    IN  /\ goals' = Append(goals, goal)
        /\ goalsFile' = SaveData(goals')
        /\ call' = [op |-> "set_goal",
                    args |-> <<category, target_value, target_date>>]
        /\ ret' = [kind |-> "none", val |-> None]
        /\ UNCHANGED <<data, dataFile>>

\* min(100, max(0, progress))
ClampNoUpper(progress) == RMax(RInt(0), progress)

Clamp(progress) == RMin(RInt(100), RMax(RInt(0), progress))

GoalProgress(goal, list) ==
    LET current_value == AverageEmissions(list, goal.category)
        total_reduction == RSub(goal.start_value, current_value)
        target_reduction == RSub(goal.start_value, RInt(goal.target_value))
        progress == IF target_reduction = RInt(0) THEN RInt(100)
                    ELSE RMul(RDiv(total_reduction, target_reduction),
                              RInt(100))
    IN  [category |-> goal.category,
         progress |-> Clamp(progress),
         target_date |-> goal.target_date,
         current_value |-> current_value,
         target_value |-> goal.target_value]

TrackGoalsStoring ==
    /\ call' = [op |-> "track_goals", args |-> <<>>]
    /\ ret' = [kind |-> "progress_report",
               val |-> [i \in 1..Len(goals) |-> GoalProgress(goals[i], data)]]
    /\ goals' = [i \in 1..Len(goals) |->
                    [category |-> goals[i].category,
                     target_value |-> goals[i].target_value,
                     target_date |-> goals[i].target_date,
                     start_date |-> goals[i].start_date,
                     start_value |-> goals[i].start_value,
                     progress |-> GoalProgress(goals[i], data).progress]]
    /\ UNCHANGED <<data, dataFile, goalsFile>>

TrackGoals ==
    /\ call' = [op |-> "track_goals", args |-> <<>>]
    /\ ret' = [kind |-> "progress_report",
               val |-> [i \in 1..Len(goals) |-> GoalProgress(goals[i], data)]]
    /\ UNCHANGED <<data, goals, dataFile, goalsFile>>

----------------------------------------------------------------------------
(* get_monthly_report *)

RowDate(record) == Lookup(record, DateCol)
RowTotal(record) == Lookup(record, TotalCol)

\* the rows of the requested year and month
MonthlyDataAnyYear(records, year, month) ==
    SelectSeq(records, LAMBDA r : RowDate(r)[2] = month)

MonthlyData(records, year, month) ==
    SelectSeq(records, LAMBDA r : RowDate(r)[1] = year /\ RowDate(r)[2] = month)

\* Series.mean() of total_emissions over the rows of the month
TotalMeanPerDay(records) ==
    Rat(ColumnSum(records, TotalCol),
        Cardinality({RowDate(records[i]) : i \in 1..Len(records)}))

TotalMean(records) == ColumnMean(records, TotalCol)

MonthlyReport(list, year, month) ==
    LET df == GetDataframe(list)
        monthly_data == MonthlyData(df.records, year, month)
        totals == [i \in 1..Len(monthly_data) |->
                      RInt(RowTotal(monthly_data[i]))]
        present == SelectSeq(EmissionCategories,
                       LAMBDA c : HasColumn(df, EmissionsCol(c)))
    IN  IF ~ HasColumn(df, DateCol) THEN Raise("KeyError")
        ELSE IF monthly_data = <<>>
        THEN [kind |-> "str", val |-> "No data available for specified month"]
        ELSE [kind |-> "report",
              val |-> [total_emissions |-> ColumnSum(monthly_data, TotalCol),
                       daily_average |-> TotalMean(monthly_data),
                       highest_day |->
                           [date |-> RowDate(monthly_data[IdxMax(totals)]),
                            emissions |-> RowTotal(monthly_data[IdxMax(totals)])],
                       by_category |->
                           [i \in 1..Len(present) |->
                               <<present[i],
                                 ColumnSum(monthly_data,
                                           EmissionsCol(present[i]))>>]]]

GetMonthlyReport(year, month) ==
    /\ call' = [op |-> "get_monthly_report", args |-> <<year, month>>]
    /\ ret' = MonthlyReport(data, year, month)
    /\ UNCHANGED <<data, goals, dataFile, goalsFile>>

----------------------------------------------------------------------------
(* get_insights *)

DateLt(a, b) ==
    \/ a[1] < b[1]
    \/ a[1] = b[1] /\ a[2] < b[2]
    \/ a[1] = b[1] /\ a[2] = b[2] /\ a[3] < b[3]

RemoveAt(s, i) == SubSeq(s, 1, i - 1) \o SubSeq(s, i + 1, Len(s))

\* df.sort_values('date'): the default sort is not stable, so rows of one
\* date come out in any order; the set of orders it may return
RECURSIVE SortValues(_)
SortValues(records) ==
    IF records = <<>> THEN {<<>>}
    ELSE LET firsts ==
                 {i \in 1..Len(records) :
                     /\ \A j \in 1..Len(records) :
                            ~ DateLt(RowDate(records[j]), RowDate(records[i]))
                     /\ \A j \in 1..(i - 1) : records[j] # records[i]}
         IN  UNION {{<<records[i]>> \o rest :
                        rest \in SortValues(RemoveAt(records, i))} :
                    i \in firsts}

TrendWindow == 7

\* .tail(7)
TailRows(s) ==
    IF Len(s) <= TrendWindow THEN s
    ELSE SubSeq(s, Len(s) - TrendWindow + 1, Len(s))

\* ['total_emissions'].diff().mean(): the first difference is NaN and is
\* skipped by the mean
DiffMeanReversed(totals) ==
    IF Len(totals) < 2 THEN NaN
    ELSE Rat(SeqSum([i \in 1..(Len(totals) - 1) |->
                        totals[i] - totals[i + 1]]),
             Len(totals) - 1)

DiffMean(totals) ==
    IF Len(totals) < 2 THEN NaN
    ELSE Rat(SeqSum([i \in 1..(Len(totals) - 1) |->
                        totals[i + 1] - totals[i]]),
             Len(totals) - 1)

RAbs(a) == [n |-> Abs(a.n), d |-> a.d]

\* the columns whose label starts with 'emissions_', in column order
EmissionsCols(df) ==
    SelectSeq(df.columns, LAMBDA c : Len(c) = 2 /\ c[1] = "emissions")

Insights(df, sorted) ==
    LET window == TailRows(sorted)
        window_totals == [i \in 1..Len(window) |-> RowTotal(window[i])]
        recent_trend == DiffMean(window_totals)
        trend_insight ==
            IF RLt(RInt(0), recent_trend)
            THEN << [kind |-> "increased", amount |-> RAbs(recent_trend)] >>
            ELSE IF RLt(recent_trend, RInt(0))
            THEN << [kind |-> "decreased", amount |-> RAbs(recent_trend)] >>
            ELSE <<>>
        totals == [i \in 1..Len(df.records) |-> RInt(RowTotal(df.records[i]))]
        peak_day == df.records[IdxMax(totals)]
        peak_insight == [kind |-> "highest_day", date |-> RowDate(peak_day),
                         emissions |-> RowTotal(peak_day)]
        emissions_cols == EmissionsCols(df)
        means == [i \in 1..Len(emissions_cols) |->
                     ColumnMean(df.records, emissions_cols[i])]
        highest_category == emissions_cols[IdxMax(means)]
    IN  IF emissions_cols = <<>> THEN Raise("ValueError")
        ELSE [kind |-> "insights",
              val |-> trend_insight \o
                      << peak_insight,
                         [kind |-> "largest_source",
                          category |-> highest_category[2]] >>,
              window |-> [i \in 1..Len(window) |->
                             [date |-> RowDate(window[i]),
                              total_emissions |-> RowTotal(window[i])]],
              recent_trend |-> recent_trend]

GetInsights ==
    LET df == GetDataframe(data)
    IN  /\ call' = [op |-> "get_insights", args |-> <<>>]
        /\ IF IsEmpty(df)
           THEN ret' = [kind |-> "str", val |-> "No data available for insights"]
           ELSE \E sorted \in SortValues(df.records) :
                    ret' = Insights(df, sorted)
        /\ UNCHANGED <<data, goals, dataFile, goalsFile>>

----------------------------------------------------------------------------
(* The tracker after __init__ in a directory without the two files *)

Init ==
    /\ dataFile = NoFile
    /\ goalsFile = NoFile
    /\ data = LoadData(dataFile)
    /\ goals = LoadData(goalsFile)
    /\ call = [op |-> "__init__", args |-> <<>>]
    /\ ret = [kind |-> "none", val |-> None]

\* all dictionaries over the categories cats with values in vals, in every
\* order of the keys
KwargsOver(cats, vals) ==
    UNION {{kw \in [1..n -> cats \X vals] :
               \A i, j \in 1..n : i # j => kw[i][1] # kw[j][1]} :
           n \in 0..Cardinality(cats)}

Jan1 == <<2024, 1, 1>>
Jan2 == <<2024, 1, 2>>
Feb1 == <<2024, 2, 1>>

----------------------------------------------------------------------------
(* Spec: every operation, one known category *)

Dates == {Jan1, Feb1}
Kwargs == KwargsOver({"electricity"}, {1, 2})
GoalCategories == {"electricity"}
TargetValues == {0, 4}
Categories == {"electricity", "water"}
Years == {2023, 2024}
Months == {1, 2}

DoAddEntry ==
    /\ Len(data) < MaxEntries
    /\ \E date \in Dates \cup {None}, kwargs \in Kwargs :
           \E now \in IF date = None THEN Dates ELSE {Jan1} :
               AddEntry(date, now, kwargs)

DoSetGoal ==
    /\ Len(goals) < MaxGoals
    /\ \E category \in GoalCategories, target_value \in TargetValues :
           SetGoal(category, target_value, Feb1, Jan1)

DoGetMonthlyReport ==
    \E year \in Years, month \in Months : GetMonthlyReport(year, month)

DoGetAverageEmissions ==
    \E category \in Categories : GetAverageEmissions(category)

Next ==
    \/ DoAddEntry
    \/ DoSetGoal
    \/ TrackGoals
    \/ DoGetMonthlyReport
    \/ GetInsights
    \/ DoGetAverageEmissions

Spec == Init /\ [][Next]_vars

---------------------------------------------------------------------------------------------------------------------------------------------------
(* SpecEntry: add_entry with several known and unknown categories in every *)
(* keyword order, and get_insights                                         *)

EntryKwargs == KwargsOver({"electricity", "heating", "pets"}, {-1, 1, 2})

EntryAddEntry ==
    /\ Len(data) < EntryMaxEntries
    /\ \E kwargs \in EntryKwargs : AddEntry(Jan1, Jan2, kwargs)

NextEntry ==
    \/ EntryAddEntry
    \/ GetInsights

SpecEntry == Init /\ [][NextEntry]_vars

----------------------------------------------------------------------------
(* SpecReport: add_entry over two months, and get_monthly_report           *)

ReportAddEntry ==
    /\ Len(data) < ReportMaxEntries
    /\ \E date \in {Jan1, Jan2, Feb1}, kwargs \in Kwargs :
           AddEntry(date, Jan1, kwargs)

NextReport ==
    \/ ReportAddEntry
    \/ DoGetMonthlyReport

SpecReport == Init /\ [][NextReport]_vars

----------------------------------------------------------------------------
(* SpecTrend: the tracker is constructed on the data file of an earlier    *)
(* session, which holds one entry a day from 2 January on, with usage      *)
(* rising by one a day or flat; entries dated before and after them are    *)
(* added, so that the window of get_insights drops rows.                   *)

ElectricityEntry(date, usage) == BuildEntry(date, << <<"electricity", usage>> >>)

PriorEntries(k, rising) ==
    [i \in 1..k |->
        ElectricityEntry(<<2024, 1, i + 1>>, IF rising THEN i ELSE 1)]

InitTrend ==
    /\ \E k \in 0..TrendMaxPrior, rising \in BOOLEAN :
           dataFile = SaveData(PriorEntries(k, rising))
    /\ goalsFile = NoFile
    /\ data = LoadData(dataFile)
    /\ goals = LoadData(goalsFile)
    /\ call = [op |-> "__init__", args |-> <<>>]
    /\ ret = [kind |-> "none", val |-> None]

TrendAddDates == {Jan1, Feb1}

TrendAddEntry ==
    /\ Cardinality({i \in 1..Len(data) : data[i].date \in TrendAddDates})
           < TrendMaxAdds
    /\ \E date \in TrendAddDates, usage \in {1, 9} :
           AddEntry(date, date, << <<"electricity", usage>> >>)

NextTrend ==
    \/ TrendAddEntry
    \/ GetInsights

SpecTrend == InitTrend /\ [][NextTrend]_vars

----------------------------------------------------------------------------
(* Definitions the properties are stated with.  They read the entries      *)
(* directly and go through neither the DataFrame nor the operators above.  *)

RECURSIVE SetSum(_, _)
SetSum(S, f) ==
    IF S = {} THEN 0
    ELSE LET x == CHOOSE y \in S : TRUE
         IN  f[x] + SetSum(S \ {x}, f)

\* the value a dictionary holds for a key
ValueOf(dict, k) == dict[CHOOSE i \in 1..Len(dict) : dict[i][1] = k][2]

\* the sum of the values of a dictionary, key by key
SumByKey(dict) == SetSum(Keys(dict), [k \in Keys(dict) |-> ValueOf(dict, k)])

\* the entries that record emissions of a category
RecordedIn(list, c) == {i \in 1..Len(list) : c \in Keys(list[i].emissions)}

\* the mean emissions of a category over the entries that record it, 0 if
\* none does
CategoryMean(list, c) ==
    IF RecordedIn(list, c) = {} THEN RInt(0)
    ELSE Rat(SetSum(RecordedIn(list, c),
                    [i \in RecordedIn(list, c) |->
                        ValueOf(list[i].emissions, c)]),
             Cardinality(RecordedIn(list, c)))

\* the entries dated in a year and month
InMonth(list, year, month) ==
    {i \in 1..Len(list) : list[i].date[1] = year /\ list[i].date[2] = month}

InsightKinds == {ret.val[i].kind : i \in 1..Len(ret.val)}

----------------------------------------------------------------------------
\* C1: every entry of the collection has total_emissions equal to the sum of
\* the values of its emissions mapping, each category counted once, and the
\* total is 0 when the inputs are empty or name only unknown categories.
C1_TotalIsSumOfEmissions ==
    \A i \in 1..Len(data) :
        /\ Cardinality(Keys(data[i].emissions)) = Len(data[i].emissions)
        /\ data[i].total_emissions = SumByKey(data[i].emissions)
        /\ (Keys(data[i].inputs) \cap DOMAIN emission_factors = {})
               => data[i].total_emissions = 0

C1_Witness ==
    \E i \in 1..Len(data) :
        /\ Len(data[i].inputs) = 3
        /\ Len(data[i].emissions) = 2
        /\ data[i].total_emissions # 0

\* C2: for every category of an entry's inputs, a known category has
\* emissions = input * factor, negative inputs included; an unknown category
\* is absent from emissions, raises no error and stays in the stored inputs
\* with its raw value; emissions holds no category that is not in the inputs.
C2_EmissionsPerCategory ==
    /\ \A i \in 1..Len(data) :
          /\ \A j \in 1..Len(data[i].inputs) :
                LET c == data[i].inputs[j][1]
                    v == data[i].inputs[j][2]
                IN  IF c \in DOMAIN emission_factors
                    THEN /\ c \in Keys(data[i].emissions)
                         /\ ValueOf(data[i].emissions, c)
                                = v * emission_factors[c]
                    ELSE c \notin Keys(data[i].emissions)
          /\ Keys(data[i].emissions) \subseteq Keys(data[i].inputs)
    /\ call.op = "add_entry" =>
          /\ ret.kind = "entry"
          /\ ret.val = data[Len(data)]
          /\ data[Len(data)].inputs = call.args[2]

C2_Witness ==
    /\ call.op = "add_entry"
    /\ \E j, k \in 1..Len(ret.val.inputs) :
          /\ ret.val.inputs[j][1] \in DOMAIN emission_factors
          /\ ret.val.inputs[j][2] < 0
          /\ ret.val.inputs[k][1] \notin DOMAIN emission_factors

C4_NoDataResult ==
    /\ (/\ call.op = "get_monthly_report"
        /\ InMonth(data, call.args[1], call.args[2]) = {})
          => ret.kind = "str"
    /\ (call.op = "get_insights" /\ data = <<>>) => ret.kind = "str"

C6_AppendOnly ==
    [][/\ Len(data') >= Len(data)
       /\ \A i \in 1..Len(data) : data'[i] = data[i]
       /\ call'.op = "add_entry" => Len(data') = Len(data) + 1]_vars

C6_Witness ==
    /\ Len(data) = 2
    /\ data[1].date = data[2].date
    /\ data[1] # data[2]
    /\ Len(goals) = 1
    /\ call.op = "get_insights"

\* C7 as stated: add_entry leaves the in-memory entry collection and the
\* persisted entry store as they were.
C7_NoSideEffect ==
    [][call'.op = "add_entry" => data' = data /\ dataFile' = dataFile]_vars

\* C7 as amended: add_entry appends the entry it returns to the in-memory
\* collection and rewrites the persisted entry store with the whole
\* collection; the goals and the goal store stay as they were.
C7_AppendsAndSaves ==
    [][call'.op = "add_entry" =>
          /\ data' = Append(data, ret'.val)
          /\ dataFile' = [exists |-> TRUE, content |-> data']
          /\ goals' = goals
          /\ goalsFile' = goalsFile]_vars

C7_Witness ==
    /\ call.op = "add_entry"
    /\ Len(data) = 2
    /\ dataFile.content = data
    /\ Len(goals) = 1

\* C8: for a year and month that hold an entry, get_monthly_report returns
\* as total_emissions the sum of total_emissions over the entries of that
\* year and month and as daily_average that total divided by the number of
\* those entries.
C8_MonthlyTotals ==
    call.op = "get_monthly_report" =>
        LET in_month == InMonth(data, call.args[1], call.args[2])
            total == SetSum(in_month,
                           [i \in in_month |-> data[i].total_emissions])
        IN  in_month # {} =>
                /\ ret.kind = "report"
                /\ ret.val.total_emissions = total
                /\ ret.val.daily_average = Rat(total, Cardinality(in_month))

C8_Witness ==
    /\ call.op = "get_monthly_report"
    /\ ret.kind = "report"
    /\ LET in_month == InMonth(data, call.args[1], call.args[2])
       IN  /\ Cardinality(in_month) = 2
           /\ Len(data) = 3
           /\ \A i, j \in in_month : data[i].date = data[j].date
           /\ \A i \in 1..Len(data) : data[i].total_emissions > 0

\* the rows get_insights took its trend from are the last seven, or all, of
\* the entries in date order
WindowOf(w, list) ==
    /\ Len(w) = IF Len(list) < 7 THEN Len(list) ELSE 7
    /\ \A i, j \in 1..Len(w) : i < j => ~ DateLt(w[j].date, w[i].date)
    /\ \A k \in 1..Len(w) :
          Cardinality({i \in 1..Len(w) : w[i] = w[k]})
              <= Cardinality({i \in 1..Len(list) :
                                 /\ list[i].date = w[k].date
                                 /\ list[i].total_emissions
                                        = w[k].total_emissions})
    /\ Len(w) > 0 =>
          Cardinality({i \in 1..Len(w) : DateLt(w[1].date, w[i].date)})
              = Cardinality({i \in 1..Len(list) :
                                DateLt(w[1].date, list[i].date)})

\* C9: over the last seven entries in date order (all if fewer), the trend of
\* get_insights is strictly positive, and an 'increased' insight is emitted,
\* when their totals are strictly increasing over two or more entries; it is
\* exactly 0, with neither an 'increased' nor a 'decreased' insight, when
\* they are all equal; and no such insight is emitted for fewer than two.
C9_RecentTrend ==
    (call.op = "get_insights" /\ ret.kind = "insights") =>
        LET w == ret.window
            n == Len(w)
            trend == ret.recent_trend
        IN  /\ WindowOf(w, data)
            /\ (/\ n >= 2
                /\ \A i \in 1..(n - 1) :
                      w[i].total_emissions < w[i + 1].total_emissions)
                  => /\ RLt(RInt(0), trend)
                     /\ "increased" \in InsightKinds
            /\ (/\ n >= 2
                /\ \A i \in 1..(n - 1) :
                      w[i].total_emissions = w[i + 1].total_emissions)
                  => /\ trend = RInt(0)
                     /\ "increased" \notin InsightKinds
                     /\ "decreased" \notin InsightKinds
            /\ n < 2 => /\ "increased" \notin InsightKinds
                        /\ "decreased" \notin InsightKinds

C9_Witness ==
    /\ call.op = "get_insights"
    /\ ret.kind = "insights"
    /\ Len(data) = 8
    /\ Len(ret.window) = 7
    /\ \A i \in 1..6 :
          /\ ret.window[i].total_emissions < ret.window[i + 1].total_emissions
          /\ DateLt(ret.window[i].date, ret.window[i + 1].date)
    /\ \E i \in 1..8 : data[i].total_emissions > ret.window[1].total_emissions
                       /\ DateLt(data[i].date, ret.window[1].date)

\* the categories some entry records, and those of the highest mean
RecordedCategories == UNION {Keys(data[i].emissions) : i \in 1..Len(data)}

HighestMeanCategories ==
    {c \in RecordedCategories :
        \A c2 \in RecordedCategories :
            RLe(CategoryMean(data, c2), CategoryMean(data, c))}

\* the category get_insights names as the largest source
LargestSource ==
    ret.val[CHOOSE i \in 1..Len(ret.val) :
                ret.val[i].kind = "largest_source"].category

\* the known category names in lexicographic order
LexOrder ==
    <<"electricity", "electronics", "food", "heating", "transportation",
      "waste", "water">>

LexRank(c) == CHOOSE i \in 1..Len(LexOrder) : LexOrder[i] = c

\* where a category was entered first: the entry, then the place in it
FirstEntered(c) ==
    LET i == CHOOSE k \in RecordedIn(data, c) :
                 \A k2 \in RecordedIn(data, c) : k <= k2
        j == CHOOSE k \in 1..Len(data[i].emissions) :
                 data[i].emissions[k][1] = c
    IN  <<i, j>>

EnteredBefore(c, c2) ==
    \/ FirstEntered(c)[1] < FirstEntered(c2)[1]
    \/ /\ FirstEntered(c)[1] = FirstEntered(c2)[1]
       /\ FirstEntered(c)[2] < FirstEntered(c2)[2]

====
